---- MODULE Spec2Model ----
(***************************************************************************)
(* A model of the scanner bot (src/index.js): the cooldown gate and the    *)
(* promise-chain scan queue of the messageCreate handler, the scan task,   *)
(* fetchWithRetry, the helpers extractGamePassIds, robuxAfterFee,          *)
(* extractGroupId and normalizeGroups, and the `eligible` command.         *)
(*                                                                         *)
(* Granularity: JavaScript runs a handler or a continuation to its next    *)
(* `await` without interruption, so one action is the code between two     *)
(* suspension points.  An external call (fetch, reply, sleep) is in flight  *)
(* while its caller's pc names it; the action that ends it draws the       *)
(* call's outcome.                                                         *)
(***************************************************************************)
EXTENDS Integers, Sequences, FiniteSets, TLC

VARIABLES
  now,          \* the clock Date.now() reads
  scanCooldown, \* Map: requester -> timestamp of the last admission (NoEntry: no key)
  scanQueue,    \* the chain pointer: index of the promise it holds (0: Promise.resolve())
  tasks,        \* the tasks handed to enqueueScan, in enqueue order
  triggers,     \* the scan triggers handled so far, each with its handler's pc
  callLog,      \* history: which task made marketplace calls, in call order
  cookie,       \* whether process.env.ROBLOSECURITY is set
  fwr,          \* a fetchWithRetry activation run on its own (RetrySpec)
  fwrHist,      \* history of that activation: responses received, waits begun
  trace,        \* history of one scan: the awaited calls that settled, in order
  call,         \* a helper function's activation: its argument and its result
  db,           \* the content of groups.json
  elig          \* an `eligible` interaction: its inputs, its pc and its replies

vars == <<now, scanCooldown, scanQueue, tasks, triggers, callLog,
          cookie, fwr, fwrHist, trace, call, db, elig>>

\* ------------------------------------------------------------------ bounds
NumUsers == 2
MaxTriggers == 2
MaxQueue == 4
MaxRetriesBound == 3
MaxPrice == 200
MaxTextLen == 2
MaxExtractLen == 3
MaxGroups == 2
MaxLeadingZeros == 1750
MaxRegistry == 3

\* ------------------------------------------------------- program constants
COOLDOWN_MS == 5000
THROTTLED == 429
MIN_WAIT_MS == 1000
FALLBACK_STEP_MS == 1500
DETAILS_MAX_RETRIES == 3

\* ----------------------------------------------------------------- helpers
Max(a, b) == IF a >= b THEN a ELSE b

Last(s) == s[Len(s)]

\* ====================================================================
\* fetchWithRetry (src/index.js 128-145)
\* ====================================================================

\* Not-a-number, the value of Number("<an HTTP date>").
NaN == 0 - 1

\* The values res.headers.get("retry-after") can give: "null" stands for the
\* absent header; the others are the header's text.
RetryAfterValues == {"null", "", "0", "1", "2", "0.5", "date"}

\* A non-empty string is truthy; null and "" are falsy (line 137).
Truthy(retryAfter) == retryAfter \notin {"null", ""}

\* Math.ceil(Number(retryAfter) * 1000) (line 138).
CeilMs(retryAfter) ==
  CASE retryAfter = "0" -> 0
    [] retryAfter = "1" -> 1000
    [] retryAfter = "2" -> 2000
    [] retryAfter = "0.5" -> 500
    [] retryAfter = "" -> 0
    [] OTHER -> NaN

\* Math.max(a, b): NaN if either argument is NaN.
MathMax(a, b) == IF a = NaN \/ b = NaN THEN NaN ELSE Max(a, b)

\* waitMs (lines 136-139).
WaitMs(retryAfter, attempt) ==
  IF Truthy(retryAfter)
  THEN MathMax(MIN_WAIT_MS, CeilMs(retryAfter))
  ELSE FALLBACK_STEP_MS * (attempt + 1)

\* sleep(ms) (lines 124-126): setTimeout(resolve, ms).  The timer runs for
\* ms milliseconds; a delay that is NaN or below 1 is taken as 1.
TimerDelay(ms) == IF ms = NaN \/ ms < 1 THEN 1 ELSE ms

Statuses == {200, 404, THROTTLED, 500}

\* res.ok
Ok(res) == res.status >= 200 /\ res.status <= 299

Responses == [status : Statuses, retryAfter : RetryAfterValues]

NoRes == [status |-> 0, retryAfter |-> "null"]

NoFrame == [pc |-> "none", attempt |-> 0, maxRetries |-> 0,
            lastRes |-> NoRes, ret |-> NoRes, waitMs |-> 0]

\* Variant of LoopHead with the loop test `attempt < maxRetries`.
MutLoopHeadStrict(f) ==
  IF f.attempt < f.maxRetries
  THEN [f EXCEPT !.pc = "fetch"]
  ELSE [f EXCEPT !.pc = "returned", !.ret = f.lastRes]

\* The loop test `attempt <= maxRetries` (line 130): enter the body, which
\* calls fetch and awaits it, or fall out of the loop to `return lastRes`
\* (line 144).
LoopHead(f) ==
  IF f.attempt <= f.maxRetries
  THEN [f EXCEPT !.pc = "fetch"]
  ELSE [f EXCEPT !.pc = "returned", !.ret = f.lastRes]

\* Entry: lastRes = null, attempt = 0 (lines 129-130).
FWRStart(maxRetries) ==
  LoopHead([NoFrame EXCEPT !.maxRetries = maxRetries])

\* Variant of FWROnResponse that retries on every response that is not ok.
MutOnResponseRetryErrors(f, res) ==
  LET f1 == [f EXCEPT !.lastRes = res]
  IN IF Ok(res)
     THEN [f1 EXCEPT !.pc = "returned", !.ret = res]
     ELSE IF f.attempt = f.maxRetries
          THEN [f1 EXCEPT !.pc = "returned", !.ret = res]
          ELSE [f1 EXCEPT !.pc = "sleep",
                          !.waitMs = WaitMs(res.retryAfter, f.attempt)]

\* The awaited fetch gave `res` (lines 131-142).
FWROnResponse(f, res) ==
  LET f1 == [f EXCEPT !.lastRes = res]
  IN IF res.status # THROTTLED
     THEN [f1 EXCEPT !.pc = "returned", !.ret = res]
     ELSE IF f.attempt = f.maxRetries
          THEN [f1 EXCEPT !.pc = "returned", !.ret = res]
          ELSE [f1 EXCEPT !.pc = "sleep",
                          !.waitMs = WaitMs(res.retryAfter, f.attempt)]

\* The awaited fetch rejected (network error): the exception leaves the function.
FWROnThrow(f) == [f EXCEPT !.pc = "threw"]

\* sleep(waitMs) resolved: attempt++ and the loop test (lines 142, 130).
FWROnWake(f) == LoopHead([f EXCEPT !.attempt = @ + 1, !.waitMs = 0])

\* ====================================================================
\* Scan throttling + queue (src/index.js 270-280)
\* ====================================================================
Users == 1 .. NumUsers

\* The instants Date.now() is observed at: the epoch, and around an
\* admission at COOLDOWN_MS or 2 * COOLDOWN_MS the instants just inside the
\* window, at its end and beyond it.
Times == {0, COOLDOWN_MS, 2 * COOLDOWN_MS - 1, 2 * COOLDOWN_MS,
          3 * COOLDOWN_MS}

\* scanCooldown has no key for the requester.
NoEntry == 0 - 1

\* Variant of GetLast that looks up a key the map never holds.
MutGetLastWrongKey(u) == 0

\* scanCooldown.get(id) || 0 (line 292): undefined and 0 are falsy.
GetLast(u) == IF scanCooldown[u] = NoEntry THEN 0 ELSE scanCooldown[u]

\* Variant of TooSoon with `<=`.
MutTooSoonInclusive(t, last) == t - last <= COOLDOWN_MS

\* The gate's test (line 293): the trigger is rejected when it holds.
TooSoon(t, last) == t - last < COOLDOWN_MS

\* State of the promise with index p: 0 is the initial Promise.resolve()
\* (line 275), n > 0 the promise enqueueScan made for tasks[n].
PromState(p) == IF p = 0 THEN "fulfilled" ELSE tasks[p].c

\* p.then(task): once p is fulfilled the task is called and the new promise
\* follows the task's outcome; a rejected p is passed on and the task is
\* never called (line 278).
PromiseThen(p, outcome) == IF p = "fulfilled" THEN outcome ELSE p

\* Variant of PromiseCatch for a chain without the .catch.
MutCatchDropped(t) == t

\* t.catch(e => console.error(...)): a rejection is handled and the new
\* promise fulfils with the handler's undefined (line 278).
PromiseCatch(t) == IF t = "rejected" THEN "fulfilled" ELSE t

\* A task not yet handed to the queue.  msg: the trigger it serves (0 for a
\* task that is no scan); behind: how many earlier tasks were unsettled when
\* it was enqueued (history).
NewTask(msg, author) ==
  [msg |-> msg, author |-> author, prev |-> 0, behind |-> 0,
   pc |-> "queued", t |-> "pending", c |-> "pending",
   ids |-> << >>, k |-> 0, i |-> 0, price |-> 0, blocks |-> << >>,
   sent |-> 0, fw |-> NoFrame]

Unsettled == {n \in 1 .. Len(tasks) : tasks[n].c = "pending"}

\* Variant of enqueueScan that chains every task on the initial promise.
MutEnqueueUnchained(task) ==
  /\ tasks' = Append(tasks, [task EXCEPT !.prev = 0,
                                         !.behind = Cardinality(Unsettled)])
  /\ scanQueue' = Len(tasks) + 1

\* enqueueScan (lines 277-280): the new promise is chained on the one
\* scanQueue holds, and scanQueue is set to it, in one synchronous step.
enqueueScan(task) ==
  /\ tasks' = Append(tasks, [task EXCEPT !.prev = scanQueue,
                                         !.behind = Cardinality(Unsettled)])
  /\ scanQueue' = Len(tasks) + 1

\* The task's promise settled with `outcome`: the .then promise follows it
\* and the .catch promise is settled from that.  The task's locals are gone.
Settled(tk, outcome) ==
  [tk EXCEPT !.pc = "done",
             !.t = outcome,
             !.c = PromiseCatch(outcome),
             !.ids = << >>, !.k = 0, !.i = 0, !.price = 0,
             !.blocks = << >>, !.sent = 0, !.fw = NoFrame]

\* Variant of RunThen that calls the task without waiting for its
\* predecessor, as scanQueue.then(task()) would.
MutRunThenEager(n, firstPc) ==
  /\ n \in 1 .. Len(tasks)
  /\ tasks[n].pc = "queued"
  /\ tasks' = [tasks EXCEPT ![n].pc = firstPc]

\* The reaction of .then(task) on the settled predecessor: call the task,
\* which runs to its first await (pc firstPc), or pass a rejection on.
RunThen(n, firstPc) ==
  /\ n \in 1 .. Len(tasks)
  /\ tasks[n].pc = "queued"
  /\ PromState(tasks[n].prev) # "pending"
  /\ IF PromState(tasks[n].prev) = "fulfilled"
     THEN tasks' = [tasks EXCEPT ![n].pc = firstPc]
     ELSE tasks' = [tasks EXCEPT
                      ![n].pc = "skipped",
                      ![n].t = PromiseThen(PromState(tasks[n].prev), "fulfilled"),
                      ![n].c = PromiseCatch(
                                 PromiseThen(PromState(tasks[n].prev), "fulfilled"))]

\* ====================================================================
\* Roblox helpers (src/index.js 107-197)
\* ====================================================================

\* A run of digits in a text: the decimal digits of `val` after `zeros`
\* leading zeros.  Two runs are the same string iff both fields agree.
DigitRun(zeros, val) == [zeros |-> zeros, val |-> val]

\* The text has no digits where the pattern wants them.
NoDigits == [zeros |-> 0, val |-> 0 - 1]

\* A piece of a text: what stands before a run of digits (anything the
\* pattern can be tried on) and the run itself.
Piece(before, digits) == [before |-> before, digits |-> digits]

\* A message's content: a string, given as the sequence of its pieces.
Text(pieces) == [defined |-> TRUE, pieces |-> pieces]

\* A content that is undefined or null.
NoText == [defined |-> FALSE, pieces |-> << >>]

\* Variant of ToLower for a pattern without the flag i.
MutToLowerNone(str) == str

\* String.prototype.toLowerCase on the texts before a run of digits.
ToLower(str) ==
  CASE str = "ROBLOX.COM/Game-Pass/" -> "roblox.com/game-pass/"
    [] str = "Roblox.com/Groups/" -> "roblox.com/groups/"
    [] OTHER -> str

\* /roblox\.com\/game-pass\/(\d+)/gi tried on a piece (line 114): the flag i
\* makes the literal part match in any case, (\d+) wants at least one digit.
GamePassMatch(piece) ==
  /\ ToLower(piece.before) = "roblox.com/game-pass/"
  /\ piece.digits # NoDigits

\* matches.map(m => m[1]) (lines 114-115): the digit runs of the matching
\* pieces, in order of occurrence.
RECURSIVE MatchedIds(_)
MatchedIds(pieces) ==
  IF pieces = << >> THEN << >>
  ELSE IF GamePassMatch(Head(pieces))
       THEN <<Head(pieces).digits>> \o MatchedIds(Tail(pieces))
       ELSE MatchedIds(Tail(pieces))

\* The replied message's text in the whole-bot specification: no link, or
\* one link.
ReplyTexts == {Text(<< >>),
               Text(<<Piece("roblox.com/game-pass/", DigitRun(0, 1))>>)}

RECURSIVE Unique(_, _)
Unique(s, seen) ==
  IF s = << >> THEN << >>
  ELSE IF Head(s) \in seen THEN Unique(Tail(s), seen)
       ELSE <<Head(s)>> \o Unique(Tail(s), seen \cup {Head(s)})

\* extractGamePassIds (lines 112-118): a falsy text gives [] (line 113);
\* [...new Set(ids)] keeps the first occurrence of each id, in insertion
\* order.
extractGamePassIds(text) ==
  IF ~text.defined \/ text.pieces = << >> THEN << >>
  ELSE Unique(MatchedIds(text.pieces), {})

RECURSIVE Pow2Floor(_, _)
Pow2Floor(n, e) == IF 2 * e <= n THEN Pow2Floor(n, 2 * e) ELSE e

\* robuxAfterFee (lines 120-122): Math.floor(price * 0.7) in IEEE-754 double
\* arithmetic.  The double 0.7 is 0.7 - 0.4 * 2^-53, so the exact product is
\* 7P/10 - P * 0.4 * 2^-53, rounded to the nearest double (ties to even).
\* The rounding moves the floor only when 7P/10 is an integer 7k (P = 10k):
\* the product 7k - k * 2^-51 rounds below 7k exactly when k * 2^-51 exceeds
\* half the spacing 2^(e-52) of the doubles in [2^e, 7k), 2^e <= 7k < 2^(e+1),
\* that is when 4k > 2^e.
robuxAfterFee(price) ==
  LET q == (7 * price) \div 10
      k == price \div 10
  IN IF price > 0 /\ (7 * price) % 10 = 0 /\ 4 * k > Pow2Floor(7 * k, 1)
     THEN q - 1
     ELSE q

RECURSIVE Digits(_)
Digits(n) == IF n < 10 THEN 1 ELSE 1 + Digits(n \div 10)

\* The length of a run of digits.
IdDigits(id) == id.zeros + Digits(id.val)

\* Length of the block pushed for listing number i (lines 325, 346, 350, 354,
\* 358); the link is "https://www.roblox.com/game-pass/" and the id.
BlockLen(b, i) ==
  LET head == Digits(i) + 2 + 33 + IdDigits(b.id)
      price == 10 + Digits(b.price)
      receive == 23 + Digits(robuxAfterFee(b.price))
  IN CASE b.kind = "unreadable" -> head + 24
       [] b.kind = "regional" -> head + price + 32
       [] b.kind = "quote" -> head + price + receive + 9
       [] b.kind = "caveat" -> head + price + receive + 99
       [] OTHER -> head + 19 + b.msgLen + 2

\* What a block's text carries besides its number and link (lines 325, 346,
\* 350, 354, 358).
Shows(b) ==
  CASE b.kind = "unreadable" -> {"unreadable"}
    [] b.kind = "regional" -> {"price", "regional"}
    [] b.kind = "quote" -> {"price", "receive"}
    [] b.kind = "caveat" -> {"price", "receive", "caveat"}
    [] OTHER -> {"error"}

CHUNK_BUDGET == 1800

\* The length of buf, given as the blocks appended to it, each followed by
\* "\n" (line 374).
RECURSIVE BufLen(_)
BufLen(buf) ==
  IF buf = << >> THEN 0
  ELSE BlockLen(Head(buf), Head(buf).num) + 1 + BufLen(Tail(buf))

\* The chunk loop (lines 367-376): `buf` holds the blocks appended since the
\* last push, `out` the chunks pushed so far.  buf is pushed when the next
\* block does not fit, also when buf is empty (lines 370-373); what is left
\* is pushed unless it is blank (line 376).
RECURSIVE ChunkLoop(_, _, _)
ChunkLoop(blocks, buf, out) ==
  IF blocks = << >>
  THEN IF buf # << >> THEN Append(out, buf) ELSE out
  ELSE IF BufLen(buf) + BlockLen(Head(blocks), Head(blocks).num) + 1 > CHUNK_BUDGET
       THEN ChunkLoop(Tail(blocks), <<Head(blocks)>>, Append(out, buf))
       ELSE ChunkLoop(Tail(blocks), Append(buf, Head(blocks)), out)

\* The chunks of a scan, each the sequence of the blocks it holds.
Chunks(blocks) == ChunkLoop(blocks, << >>, << >>)

\* The length of c.trim() (line 379): a chunk ends with the "\n" of its last
\* block and the "\n" appended to it, and begins with a digit.
TrimmedLen(chunk) == IF chunk = << >> THEN 0 ELSE BufLen(chunk) - 2

\* ====================================================================
\* messageCreate (src/index.js 285-388)
\* ====================================================================

\* message.content values, and message.content.trim().toLowerCase().
Contents == {"scan", " Scan ", "scan it"}

TrimLower(content) == IF content = " Scan " THEN "scan" ELSE content

\* The four early returns (lines 286-289) all pass.
IsScanTrigger(bot, inChannel, content, hasRef) ==
  /\ ~bot
  /\ inChannel
  /\ TrimLower(content) = "scan"
  /\ hasRef

\* Variant of Admission that records the timestamp before the gate's test.
MutAdmissionStampsRejected(i, u, t, last, trigs) ==
  IF TooSoon(t, last)
  THEN /\ triggers' = [trigs EXCEPT ![i].pc = "rejectReply"]
       /\ scanCooldown' = [scanCooldown EXCEPT ![u] = t]
       /\ UNCHANGED <<scanQueue, tasks>>
  ELSE /\ scanCooldown' = [scanCooldown EXCEPT ![u] = t]
       /\ enqueueScan(NewTask(i, u))
       /\ triggers' = [trigs EXCEPT ![i].admitted = TRUE, ![i].pc = "done"]

\* Lines 293-299 for trigger i of requester u, with the clock value t and the
\* timestamp `last` the handler read: reject and await the reply (line 294),
\* or record the admission and enqueue the scan task.
Admission(i, u, t, last, trigs) ==
  IF TooSoon(t, last)
  THEN /\ triggers' = [trigs EXCEPT ![i].pc = "rejectReply"]
       /\ UNCHANGED <<scanCooldown, scanQueue, tasks>>
  ELSE /\ scanCooldown' = [scanCooldown EXCEPT ![u] = t]
       /\ enqueueScan(NewTask(i, u))
       /\ triggers' = [trigs EXCEPT ![i].admitted = TRUE, ![i].pc = "done"]

\* A trigger as its handler saw it: the clock value `at`, whether the map had
\* a key for the requester (`had`) and the value `last` of line 292.
NewTrigger(u, t, last, pc) ==
  [author |-> u, at |-> t, had |-> scanCooldown[u] # NoEntry, last |-> last,
   admitted |-> FALSE, pc |-> pc]

\* Variant of MessageCreate that suspends between reading the cooldown map
\* and acting on what it read.
MutMessageCreateSuspends(u, bot, inChannel, content, hasRef) ==
  /\ UNCHANGED <<now, callLog, cookie, fwr, fwrHist, trace, call, db, elig>>
  /\ \/ /\ Len(triggers) < MaxTriggers
        /\ IsScanTrigger(bot, inChannel, content, hasRef)
        /\ triggers' = Append(triggers, NewTrigger(u, now, GetLast(u), "afterRead"))
        /\ UNCHANGED <<scanCooldown, scanQueue, tasks>>
     \/ \E i \in 1 .. Len(triggers) :
          /\ triggers[i].pc = "afterRead"
          /\ triggers[i].author = u
          /\ Admission(i, u, triggers[i].at, triggers[i].last, triggers)

\* The handler up to its first await: lines 286-299 run without suspension.
MessageCreate(u, bot, inChannel, content, hasRef) ==
  /\ Len(triggers) < MaxTriggers
  /\ IF IsScanTrigger(bot, inChannel, content, hasRef)
     THEN Admission(Len(triggers) + 1, u, now, GetLast(u),
                    Append(triggers, NewTrigger(u, now, GetLast(u), "new")))
     ELSE UNCHANGED <<scanCooldown, scanQueue, tasks, triggers>>
  /\ UNCHANGED <<now, callLog, cookie, fwr, fwrHist, trace, call, db, elig>>

\* The reply of line 294 settled; the handler returns.
RejectReplyDone(i) ==
  /\ i \in 1 .. Len(triggers)
  /\ triggers[i].pc = "rejectReply"
  /\ triggers' = [triggers EXCEPT ![i].pc = "done"]
  /\ UNCHANGED <<now, scanCooldown, scanQueue, tasks, callLog, cookie, fwr, fwrHist, trace, call, db, elig>>

\* Time passes; the clock matters only while a trigger can still read it.
Tick(t) ==
  /\ t \in Times
  /\ t > now
  /\ Len(triggers) < MaxTriggers
  /\ now' = t
  /\ UNCHANGED <<scanCooldown, scanQueue, tasks, triggers, callLog, cookie, fwr, fwrHist, trace, call, db, elig>>

\* ---------------------------------------------------------------------
\* The scan task (lines 299-387), one action per await.
\* ---------------------------------------------------------------------
Prices == {0, 100}

InfoOutcomes == [kind : {"ok"}, price : Prices]
                  \cup [kind : {"status", "throw", "hang"}, price : {0}]

DetailsResponses == [status : {200, THROTTLED, 500}, retryAfter : {"null"}]

DetailsOutcomes == [kind : {"res"}, res : DetailsResponses]
                     \cup [kind : {"throw", "hang"}, res : {NoRes}]

\* What res.json() of the details response gives: a body hasRegionalPricing
\* accepts, one it does not, the JSON null, or a rejection.
DetailsBodies == {"regional", "plain", "null", "bad"}

\* A marketplace call by task n enters the log (runs of one task are merged).
LogCall(n) ==
  IF callLog # << >> /\ Last(callLog) = n THEN callLog ELSE Append(callLog, n)

\* blocks.push(...) with the current i (lines 325, 345-358).
PushBlock(tk, kind, price, msgLen) ==
  [tk EXCEPT !.blocks = Append(@, [num |-> tk.i, kind |-> kind,
                                   id |-> tk.ids[tk.k],
                                   price |-> price, msgLen |-> msgLen])]

\* i++ (lines 326, 361).
IncI(tk) == [tk EXCEPT !.i = @ + 1]

\* `return` inside the task's try: the async function's promise fulfils.
Return(tk) == [tk EXCEPT !.pc = "return"]

\* The catch of line 381: log, then await the generic reply (line 384).
ToCatch(tk) ==
  [tk EXCEPT !.pc = "replyErr",
             !.ids = << >>, !.k = 0, !.i = 0, !.price = 0,
             !.blocks = << >>, !.sent = 0, !.fw = NoFrame]

\* After the listing loop: build the chunks and await the first reply
\* (lines 366-380).
AfterLoop(tk) ==
  IF Len(Chunks(tk.blocks)) = 0
  THEN Return(tk)
  ELSE [tk EXCEPT !.pc = "replyChunk", !.sent = 0]

\* The for-of step (line 317): the next id's fetchGamePassInfo is called and
\* awaited (line 321), or the loop ends.
LoopNext(tk) ==
  IF tk.k + 1 <= Len(tk.ids)
  THEN [tk EXCEPT !.k = @ + 1, !.pc = "info", !.price = 0, !.fw = NoFrame]
  ELSE AfterLoop([tk EXCEPT !.k = @ + 1, !.price = 0, !.fw = NoFrame])

\* i++ and await sleep(350) (lines 361-363).
ToSleep350(tk) == [IncI(tk) EXCEPT !.pc = "sleep350", !.fw = NoFrame]

\* fetchWithRetry returned `res` to fetchGamePassDetails (lines 171-173) and
\* the scan task picks the block (lines 338-356).
DetailsReturned(tk, res, body) ==
  LET kind == IF ~Ok(res) THEN "caveat"
              ELSE CASE body = "regional" -> "regional"
                     [] body = "plain" -> "quote"
                     [] OTHER -> "caveat"
  IN ToSleep350(PushBlock(tk, kind, tk.price, 0))

\* Variant of DetailsThrew without the inner try/catch: the exception reaches
\* the listing's catch (line 357).
MutDetailsThrewFailsListing(tk) == ToSleep350(PushBlock(tk, "failed", 0, 43))

\* fetchGamePassDetails threw: details = null (lines 339-342, 352-355).
DetailsThrew(tk) == ToSleep350(PushBlock(tk, "caveat", tk.price, 0))

\* Variant of Falsy that takes only NaN for unreadable, so that a price of 0
\* is quoted.
MutFalsyOnlyNaN(price) == price = NaN

\* !price (line 324): 0 and NaN are falsy.
Falsy(price) == price = 0 \/ price = NaN

\* Variant of FetchMsgStep that treats a text without links as a failure.
MutFetchMsgStepNoLinksThrows(tk, found, text) ==
  IF ~found THEN Return(tk)
  ELSE IF extractGamePassIds(text) = << >>
       THEN ToCatch(tk)
       ELSE LoopNext([tk EXCEPT !.ids = extractGamePassIds(text),
                                !.k = 0, !.i = 1])

\* messages.fetch(...).catch(() => null) settled (lines 301-315): no message,
\* no link, or the loop is entered with blocks = [] and i = 1.
FetchMsgStep(tk, found, text) ==
  IF ~found THEN Return(tk)
  ELSE IF extractGamePassIds(text) = << >>
       THEN [tk EXCEPT !.pc = "replyNone"]
       ELSE LoopNext([tk EXCEPT !.ids = extractGamePassIds(text),
                                !.k = 0, !.i = 1])

\* The "no links" reply settled (lines 310-311).
ReplyNoneStep(tk, ok) == IF ok THEN Return(tk) ELSE ToCatch(tk)

\* Variant of InfoStep without the per-listing try/catch: a failed product
\* info lookup reaches the task's catch (line 381).
MutInfoStepAborts(tk, out) ==
  CASE out.kind = "hang" -> [tk EXCEPT !.pc = "hung"]
    [] out.kind \in {"status", "throw"} -> ToCatch(tk)
    [] OTHER ->
         IF Falsy(out.price)
         THEN LoopNext(IncI(PushBlock(tk, "unreadable", 0, 0)))
         ELSE IF ~cookie
              THEN DetailsThrew([tk EXCEPT !.price = out.price])
              ELSE [tk EXCEPT !.pc = "details",
                              !.price = out.price,
                              !.fw = FWRStart(DETAILS_MAX_RETRIES)]

\* fetchGamePassInfo settled (lines 321-337, 357-359); out.price is the
\* Number(...) of line 322.  An unreadable price leaves the loop body by
\* `continue` (lines 324-328).
InfoStep(tk, out) ==
  CASE out.kind = "hang" -> [tk EXCEPT !.pc = "hung"]
    [] out.kind = "status" -> ToSleep350(PushBlock(tk, "failed", 0, 35))
    [] out.kind = "throw" -> ToSleep350(PushBlock(tk, "failed", 0, 12))
    [] OTHER ->
         IF Falsy(out.price)
         THEN LoopNext(IncI(PushBlock(tk, "unreadable", 0, 0)))
         ELSE IF ~cookie
              THEN DetailsThrew([tk EXCEPT !.price = out.price])
              ELSE [tk EXCEPT !.pc = "details",
                              !.price = out.price,
                              !.fw = FWRStart(DETAILS_MAX_RETRIES)]

\* The fetch awaited inside fetchWithRetry settled (line 131).
DetailsStep(tk, out, body) ==
  CASE out.kind = "hang" -> [tk EXCEPT !.pc = "hung"]
    [] out.kind = "throw" -> DetailsThrew(tk)
    [] OTHER ->
         LET f == FWROnResponse(tk.fw, out.res)
         IN IF f.pc = "sleep"
            THEN [tk EXCEPT !.pc = "retrySleep", !.fw = f]
            ELSE DetailsReturned(tk, f.ret, body)

\* sleep(waitMs) inside fetchWithRetry resolved (line 142).
RetryWakeStep(tk, body) ==
  LET f == FWROnWake(tk.fw)
  IN IF f.pc = "fetch"
     THEN [tk EXCEPT !.pc = "details", !.fw = f]
     ELSE DetailsReturned(tk, f.ret, body)

\* A chunk's reply settled (lines 378-380).
ReplyChunkStep(tk, ok) ==
  IF ~ok THEN ToCatch(tk)
  ELSE IF tk.sent + 1 < Len(Chunks(tk.blocks))
       THEN [tk EXCEPT !.sent = @ + 1]
       ELSE Return(tk)

\* The task's step ends: its record is stored; a return settles its promise.
Store(n, tk) ==
  /\ tasks' = [tasks EXCEPT ![n] = IF tk.pc = "return"
                                   THEN Settled(tk, "fulfilled")
                                   ELSE tk]
  /\ callLog' = IF tk.pc \in {"info", "details"} THEN LogCall(n) ELSE callLog

Commit(n, tk) ==
  /\ Store(n, tk)
  /\ UNCHANGED <<now, scanCooldown, scanQueue, triggers, cookie, fwr, fwrHist, trace, call, db, elig>>

At(n, pc) == n \in 1 .. Len(tasks) /\ tasks[n].pc = pc

StartTask(n) ==
  /\ RunThen(n, "fetchMsg")
  /\ UNCHANGED <<now, scanCooldown, scanQueue, triggers, callLog, cookie, fwr, fwrHist, trace, call, db, elig>>

FetchMsgDone(n, found, text) ==
  /\ At(n, "fetchMsg")
  /\ Commit(n, FetchMsgStep(tasks[n], found, text))

ReplyNoneDone(n, ok) ==
  /\ At(n, "replyNone")
  /\ Commit(n, ReplyNoneStep(tasks[n], ok))

InfoDone(n, out) ==
  /\ At(n, "info")
  /\ Commit(n, InfoStep(tasks[n], out))

DetailsDone(n, out, body) ==
  /\ At(n, "details")
  /\ Commit(n, DetailsStep(tasks[n], out, body))

RetryWake(n, body) ==
  /\ At(n, "retrySleep")
  /\ Commit(n, RetryWakeStep(tasks[n], body))

\* sleep(350) resolved (line 363).
Sleep350Done(n) ==
  /\ At(n, "sleep350")
  /\ Commit(n, LoopNext(tasks[n]))

ReplyChunkDone(n, ok) ==
  /\ At(n, "replyChunk")
  /\ Commit(n, ReplyChunkStep(tasks[n], ok))

\* The generic failure reply settled, either way (lines 383-385).
ReplyErrDone(n) ==
  /\ At(n, "replyErr")
  /\ Commit(n, Return(tasks[n]))

InitBot ==
  /\ now = 0
  /\ scanCooldown = [u \in Users |-> NoEntry]
  /\ scanQueue = 0
  /\ tasks = << >>
  /\ triggers = << >>
  /\ callLog = << >>

NoHist == [resps |-> << >>, waits |-> << >>, calls |-> 0, threw |-> FALSE]

\* No helper activation, no interaction, no scan history.
NoCall == [fn |-> "none", arg |-> 0, ret |-> 0, pc |-> "none"]

NoElig == [pc |-> "none", said |-> "", saved |-> << >>, ug |-> {}, report |-> << >>]

InitIdle ==
  /\ trace = << >>
  /\ call = NoCall
  /\ db = << >>
  /\ elig = NoElig

Init ==
  /\ InitBot
  /\ cookie \in BOOLEAN
  /\ fwr = NoFrame
  /\ fwrHist = NoHist
  /\ InitIdle

TaskIds == 1 .. MaxTriggers

TaskStep(n) ==
  \/ StartTask(n)
  \/ \E found \in BOOLEAN, text \in ReplyTexts : FetchMsgDone(n, found, text)
  \/ \E ok \in BOOLEAN : ReplyNoneDone(n, ok)
  \/ \E out \in InfoOutcomes : InfoDone(n, out)
  \/ \E out \in DetailsOutcomes, body \in DetailsBodies : DetailsDone(n, out, body)
  \/ \E body \in DetailsBodies : RetryWake(n, body)
  \/ Sleep350Done(n)
  \/ \E ok \in BOOLEAN : ReplyChunkDone(n, ok)
  \/ ReplyErrDone(n)

Next ==
  \/ \E u \in Users, bot \in BOOLEAN, inChannel \in BOOLEAN,
        content \in Contents, hasRef \in BOOLEAN :
       MessageCreate(u, bot, inChannel, content, hasRef)
  \/ \E i \in 1 .. MaxTriggers : RejectReplyDone(i)
  \/ \E t \in Times : Tick(t)
  \/ \E n \in TaskIds : TaskStep(n)

Spec == Init /\ [][Next]_vars

\* ====================================================================
\* The bot when every call, reply and timer returns: no await is left
\* pending for ever, and the event loop runs every job that is ready
\* ====================================================================

\* No task waits on a call that never returns.
NoneHung == \A n \in 1 .. Len(tasks) : tasks[n].pc # "hung"

LiveNext == Next /\ NoneHung'

\* A step of task n is the then-callback of the chain, run once the promise
\* before it has settled, or the return of the call, reply or timer the
\* task awaits: each stays possible until it is taken, and is taken.
LiveSpec ==
  /\ Init
  /\ [][LiveNext]_vars
  /\ \A n \in TaskIds : WF_vars(TaskStep(n) /\ NoneHung')

\* ====================================================================
\* enqueueScan on its own: any task, fulfilling or rejecting
\* ====================================================================
QEnqueue ==
  /\ Len(tasks) < MaxQueue
  /\ enqueueScan(NewTask(0, 0))
  /\ UNCHANGED <<now, scanCooldown, triggers, callLog, cookie, fwr, fwrHist, trace, call, db, elig>>

QStart(n) ==
  /\ RunThen(n, "running")
  /\ UNCHANGED <<now, scanCooldown, scanQueue, triggers, callLog, cookie, fwr, fwrHist, trace, call, db, elig>>

\* The running task's promise settles.
QSettle(n, outcome) ==
  /\ At(n, "running")
  /\ tasks' = [tasks EXCEPT ![n] = Settled(tasks[n], outcome)]
  /\ UNCHANGED <<now, scanCooldown, scanQueue, triggers, callLog, cookie, fwr, fwrHist, trace, call, db, elig>>

QueueInit ==
  /\ InitBot
  /\ cookie = FALSE
  /\ fwr = NoFrame
  /\ fwrHist = NoHist
  /\ InitIdle

QueueNext ==
  \/ QEnqueue
  \/ \E n \in 1 .. MaxQueue : QStart(n)
  \/ \E n \in 1 .. MaxQueue, outcome \in {"fulfilled", "rejected"} : QSettle(n, outcome)

QueueSpec == QueueInit /\ [][QueueNext]_vars

\* The queue when every call and reply returns.  QStart(n) is the reaction
\* of .then(task) (line 278), a job the event loop runs once the promise
\* before it has settled; a running task settles once the calls and replies
\* it awaits have returned.  Each stays possible until it is taken.
LiveQueueSpec ==
  /\ QueueInit
  /\ [][QueueNext]_vars
  /\ \A n \in 1 .. MaxQueue :
       /\ WF_vars(QStart(n))
       /\ WF_vars(\E outcome \in {"fulfilled", "rejected"} : QSettle(n, outcome))

\* ====================================================================
\* fetchWithRetry on its own: any maxRetries, any responses
\* ====================================================================
CountCall(h, f) == [h EXCEPT !.calls = IF f.pc = "fetch" THEN @ + 1 ELSE @]

\* The awaited fetch resolved with res.
RFetchDone(res) ==
  /\ fwr.pc = "fetch"
  /\ fwr' = FWROnResponse(fwr, res)
  /\ fwrHist' = [fwrHist EXCEPT
                   !.resps = Append(@, res),
                   !.waits = IF fwr'.pc = "sleep" THEN Append(@, fwr'.waitMs) ELSE @]
  /\ UNCHANGED <<now, scanCooldown, scanQueue, tasks, triggers, callLog, cookie, trace, call, db, elig>>

\* The awaited fetch rejected.
RFetchThrows ==
  /\ fwr.pc = "fetch"
  /\ fwr' = FWROnThrow(fwr)
  /\ fwrHist' = [fwrHist EXCEPT !.threw = TRUE]
  /\ UNCHANGED <<now, scanCooldown, scanQueue, tasks, triggers, callLog, cookie, trace, call, db, elig>>

\* The sleep resolved.
RWake ==
  /\ fwr.pc = "sleep"
  /\ fwr' = FWROnWake(fwr)
  /\ fwrHist' = CountCall(fwrHist, fwr')
  /\ UNCHANGED <<now, scanCooldown, scanQueue, tasks, triggers, callLog, cookie, trace, call, db, elig>>

RetryInit ==
  /\ InitBot
  /\ InitIdle
  /\ cookie = FALSE
  /\ \E m \in 0 .. MaxRetriesBound :
       /\ fwr = FWRStart(m)
       /\ fwrHist = CountCall(NoHist, FWRStart(m))

RetryNext ==
  \/ \E res \in Responses : RFetchDone(res)
  \/ RFetchThrows
  \/ RWake

RetrySpec == RetryInit /\ [][RetryNext]_vars

\* ====================================================================
\* robuxAfterFee on its own: any price up to MaxPrice
\* ====================================================================

\* A helper has been called with `arg` and has not returned.
Called(fn, arg) == [fn |-> fn, arg |-> arg, ret |-> 0, pc |-> "called"]

\* The helper returns `ret`.
Returns(ret) == [call EXCEPT !.ret = ret, !.pc = "returned"]

FeeReturn ==
  /\ call.pc = "called"
  /\ call.fn = "robuxAfterFee"
  /\ call' = Returns(robuxAfterFee(call.arg))
  /\ UNCHANGED <<now, scanCooldown, scanQueue, tasks, triggers, callLog, cookie, fwr, fwrHist, trace, db, elig>>

FeeInit ==
  /\ InitBot
  /\ cookie = FALSE
  /\ fwr = NoFrame
  /\ fwrHist = NoHist
  /\ trace = << >>
  /\ db = << >>
  /\ elig = NoElig
  /\ \E price \in 0 .. MaxPrice : call = Called("robuxAfterFee", price)

FeeNext == FeeReturn

FeeSpec == FeeInit /\ [][FeeNext]_vars

\* ====================================================================
\* One admitted scan on its own: any replied text, any outcome of each call
\* ====================================================================

\* All sequences over S of length at most n.
SeqsUpTo(S, n) == UNION {[1 .. m -> S] : m \in 0 .. n}

\* Pieces of the replied text: links to passes 1 and 2, the link to pass 1
\* in other case, a link whose id has MaxLeadingZeros leading zeros, and a
\* piece that is no link.
ScanPieces ==
  {Piece("roblox.com/game-pass/", DigitRun(0, 1)),
   Piece("ROBLOX.COM/Game-Pass/", DigitRun(0, 1)),
   Piece("roblox.com/game-pass/", DigitRun(0, 2)),
   Piece("roblox.com/game-pass/", DigitRun(MaxLeadingZeros, 1)),
   Piece("see ", NoDigits)}

ScanTexts == {Text(p) : p \in SeqsUpTo(ScanPieces, MaxTextLen)} \cup {NoText}

\* A property the product-info JSON does not have (or has as null).
Undefined == 0 - 2

\* null where it differs from undefined: Number(null) is 0 (line 94), and
\* getInteger gives it for an option that was not given (line 407).
Null == 0 - 3

\* x ?? y
Coalesce(x, y) == IF x = Undefined THEN y ELSE x

\* Number(info.PriceInRobux ?? info.priceInRobux ?? info.price ?? 0)
\* (line 322), for properties that are numbers.
PriceOf(info) ==
  Coalesce(info.PriceInRobux,
           Coalesce(info.priceInRobux, Coalesce(info.price, 0)))

\* The product-info JSON, as its three price properties.
InfoBody(a, b, c) == [PriceInRobux |-> a, priceInRobux |-> b, price |-> c]

NoInfo == InfoBody(Undefined, Undefined, Undefined)

\* No price property; a zero price before a positive one; a positive price
\* under the first and under the last name.
ScanInfoBodies ==
  {NoInfo, InfoBody(0, 100, Undefined), InfoBody(100, Undefined, Undefined),
   InfoBody(Undefined, Undefined, 100)}

ScanInfoOutcomes == [kind : {"ok"}, info : ScanInfoBodies]
                      \cup [kind : {"status", "throw", "hang"}, info : {NoInfo}]

\* A call the scan task awaited (lines 301, 310, 321, 337, 363, 379, 384)
\* settled: which call, for which listing, how, and what it gave.
Event(ev, k, out, info, status, body) ==
  [ev |-> ev, k |-> k, out |-> out, info |-> info, status |-> status,
   body |-> body]

\* The scan's step ends and the events of calls that settled enter the
\* history.
SCommit(tk, events) ==
  /\ Store(1, tk)
  /\ trace' = trace \o events
  /\ UNCHANGED <<now, scanCooldown, scanQueue, triggers, cookie, fwr, fwrHist, call, db, elig>>

SStart ==
  /\ RunThen(1, "fetchMsg")
  /\ UNCHANGED <<now, scanCooldown, scanQueue, triggers, callLog, cookie, fwr, fwrHist, trace, call, db, elig>>

SFetchMsgDone(found, text) ==
  /\ At(1, "fetchMsg")
  /\ SCommit(FetchMsgStep(tasks[1], found, text),
             <<Event("fetchMsg", Len(extractGamePassIds(text)),
                     IF found THEN "found" ELSE "none", NoInfo, 0, "")>>)

SReplyNoneDone(ok) ==
  /\ At(1, "replyNone")
  /\ SCommit(ReplyNoneStep(tasks[1], ok),
             <<Event("replyNone", 0, IF ok THEN "ok" ELSE "fail", NoInfo, 0, "")>>)

\* fetchGamePassInfo settled; without the cookie fetchGamePassDetails throws
\* in the same step (line 156).
SInfoDone(out) ==
  /\ At(1, "info")
  /\ SCommit(InfoStep(tasks[1], [kind |-> out.kind, price |-> PriceOf(out.info)]),
             <<Event("info", tasks[1].k, out.kind, out.info, 0, "")>>
             \o IF out.kind = "ok" /\ ~Falsy(PriceOf(out.info)) /\ ~cookie
                THEN <<Event("details", tasks[1].k, "nocookie", NoInfo, 0, "")>>
                ELSE << >>)

\* A fetch inside fetchWithRetry settled.  fetchGamePassDetails settles with
\* it unless a retry follows; the body is read only from an ok response.
SDetailsDone(out, body) ==
  /\ At(1, "details")
  /\ (out.kind # "res" \/ ~Ok(out.res)) => body = "null"
  /\ SCommit(DetailsStep(tasks[1], out, body),
             IF out.kind = "res" /\ FWROnResponse(tasks[1].fw, out.res).pc = "sleep"
             THEN << >>
             ELSE <<Event("details", tasks[1].k, out.kind, NoInfo, out.res.status,
                          IF out.kind = "res" /\ Ok(out.res) THEN body ELSE "")>>)

SRetryWake ==
  /\ At(1, "retrySleep")
  /\ SCommit(RetryWakeStep(tasks[1], "null"), << >>)

SSleep350Done ==
  /\ At(1, "sleep350")
  /\ SCommit(LoopNext(tasks[1]),
             <<Event("sleep350", tasks[1].k, "ok", NoInfo, 0, "")>>)

SReplyChunkDone(ok) ==
  /\ At(1, "replyChunk")
  /\ SCommit(ReplyChunkStep(tasks[1], ok),
             <<Event("replyChunk", tasks[1].sent + 1,
                     IF ok THEN "ok" ELSE "fail", NoInfo, 0, "")>>)

SReplyErrDone ==
  /\ At(1, "replyErr")
  /\ SCommit(Return(tasks[1]), <<Event("replyErr", 0, "ok", NoInfo, 0, "")>>)

\* The state after the handler admitted the first trigger, at COOLDOWN_MS:
\* the timestamp is recorded and the task is on the chain (lines 297-299).
ScanInit ==
  /\ now = COOLDOWN_MS
  /\ scanCooldown = [u \in Users |-> IF u = 1 THEN COOLDOWN_MS ELSE NoEntry]
  /\ scanQueue = 1
  /\ tasks = <<NewTask(1, 1)>>
  /\ triggers = <<[author |-> 1, at |-> COOLDOWN_MS, had |-> FALSE, last |-> 0,
                   admitted |-> TRUE, pc |-> "done"]>>
  /\ callLog = << >>
  /\ cookie \in BOOLEAN
  /\ fwr = NoFrame
  /\ fwrHist = NoHist
  /\ InitIdle

ScanNext ==
  \/ SStart
  \/ \E found \in BOOLEAN, text \in ScanTexts : SFetchMsgDone(found, text)
  \/ \E ok \in BOOLEAN : SReplyNoneDone(ok)
  \/ \E out \in ScanInfoOutcomes : SInfoDone(out)
  \/ \E out \in DetailsOutcomes, body \in DetailsBodies : SDetailsDone(out, body)
  \/ SRetryWake
  \/ SSleep350Done
  \/ \E ok \in BOOLEAN : SReplyChunkDone(ok)
  \/ SReplyErrDone

ScanSpec == ScanInit /\ [][ScanNext]_vars

\* ====================================================================
\* extractGamePassIds on its own: any text of up to MaxExtractLen pieces
\* ====================================================================

\* Game-pass links to 1, 2 and 01, a link in other case, a group link (in
\* two cases), a game-pass path without digits, and plain words.
ExtractPieces ==
  {Piece("roblox.com/game-pass/", DigitRun(0, 1)),
   Piece("roblox.com/game-pass/", DigitRun(0, 2)),
   Piece("roblox.com/game-pass/", DigitRun(1, 1)),
   Piece("ROBLOX.COM/Game-Pass/", DigitRun(0, 1)),
   Piece("roblox.com/groups/", DigitRun(0, 1)),
   Piece("Roblox.com/Groups/", DigitRun(0, 2)),
   Piece("roblox.com/game-pass/", NoDigits),
   Piece("see ", NoDigits)}

ExtractTexts ==
  {Text(p) : p \in SeqsUpTo(ExtractPieces, MaxExtractLen)} \cup {NoText}

ExtractReturn ==
  /\ call.pc = "called"
  /\ call.fn = "extractGamePassIds"
  /\ call' = Returns(extractGamePassIds(call.arg))
  /\ UNCHANGED <<now, scanCooldown, scanQueue, tasks, triggers, callLog, cookie, fwr, fwrHist, trace, db, elig>>

ExtractInit ==
  /\ InitBot
  /\ cookie = FALSE
  /\ fwr = NoFrame
  /\ fwrHist = NoHist
  /\ trace = << >>
  /\ db = << >>
  /\ elig = NoElig
  /\ \E text \in ExtractTexts : call = Called("extractGamePassIds", text)

ExtractNext == ExtractReturn

ExtractSpec == ExtractInit /\ [][ExtractNext]_vars

\* ====================================================================
\* DB helpers and the `eligible` command (src/index.js 57-103, 436-503)
\* ====================================================================

\* A link: the text up to the first run of digits the pattern could take,
\* that run, and the text after it.
Link(front, digits, rest) == [front |-> front, digits |-> digits, rest |-> rest]

\* The empty string (String(undefined ?? "") of line 93 too).
EmptyLink == Link("", NoDigits, "")

\* Variant of extractGroupId whose pattern knows /groups/ only.
MutExtractGroupIdGroupsOnly(link) ==
  IF ToLower(link.front) = "roblox.com/groups/" /\ link.digits # NoDigits
  THEN link.digits
  ELSE NoDigits

\* extractGroupId (lines 57-60): m[2] of
\* /roblox\.com\/(communities|groups)\/(\d+)/i, or null (NoDigits).
extractGroupId(link) ==
  IF /\ ToLower(link.front) \in {"roblox.com/communities/", "roblox.com/groups/"}
     /\ link.digits # NoDigits
  THEN link.digits
  ELSE NoDigits

\* A group's name: a text, followed by an identifier in `Group ${gid}`;
\* given is FALSE for a record without a name.
Name(given, text, gid) == [given |-> given, text |-> text, gid |-> gid]

NoName == Name(FALSE, "", NoDigits)

\* An entry of db.groups as stored: a legacy string (the link) or a record.
LegacyEntry(link) ==
  [form |-> "string", name |-> NoName, link |-> link, waitDays |-> Undefined]

RecordEntry(name, link, waitDays) ==
  [form |-> "record", name |-> name, link |-> link, waitDays |-> waitDays]

DEFAULT_WAIT_DAYS == 14

\* Variant of the map that gives legacy strings no waitDays.
MutNormalizeEntryNoDefault(g) ==
  IF g.form = "string"
  THEN [name |-> Name(TRUE, "Group", NoDigits), link |-> g.link, waitDays |-> Undefined]
  ELSE [name |-> g.name, link |-> g.link, waitDays |-> g.waitDays]

\* The map of normalizeGroups (lines 86-98).  Number(x) is NaN for
\* undefined, 0 for null.
NormalizeEntry(g) ==
  IF g.form = "string"
  THEN [name |-> IF extractGroupId(g.link) # NoDigits
                 THEN Name(TRUE, "Group ", extractGroupId(g.link))
                 ELSE Name(TRUE, "Group", NoDigits),
        link |-> g.link,
        waitDays |-> DEFAULT_WAIT_DAYS]
  ELSE [name |-> IF g.name.given THEN g.name ELSE Name(TRUE, "Group", NoDigits),
        link |-> g.link,
        waitDays |-> IF g.waitDays \in {Undefined, NaN}
                     THEN DEFAULT_WAIT_DAYS
                     ELSE IF g.waitDays = Null THEN 0 ELSE g.waitDays]

\* .filter((g) => g.link) (line 99).
HasLink(g) == g.link # EmptyLink

\* normalizeGroups (lines 83-103), on the groups array.
normalizeGroups(groups) ==
  SelectSeq([j \in 1 .. Len(groups) |-> NormalizeEntry(groups[j])], HasLink)

\* String(x.group?.id) of a numeric id (line 477).
IdString(n) == DigitRun(0, n)

\* userGroupIds (line 477), for the set of group ids in ug.data.
UserGroupIds(data) == {IdString(n) : n \in data}

\* One line of the report (lines 484-489).
ReportLine(g, userGroupIds) ==
  LET gid == extractGroupId(g.link)
  IN [name |-> g.name,
      link |-> g.link,
      mark |-> IF gid # NoDigits /\ gid \in userGroupIds
               THEN "Member"
               ELSE "Not in Group"]

\* The lines pushed by the loop of lines 483-490.
ReportLines(savedGroups, userGroupIds) ==
  [j \in 1 .. Len(savedGroups) |-> ReportLine(savedGroups[j], userGroupIds)]

\* An interaction at its await `pc`; said: the reply it last issued.
Elig(pc, said, saved, ug, report) ==
  [pc |-> pc, said |-> said, saved |-> saved, ug |-> ug, report |-> report]

\* The command arrives (lines 436-446): outside the channel the refusal is
\* replied, inside it the reply is deferred.
EligibleCmd(inChannel) ==
  /\ elig.pc = "none"
  /\ elig' = IF inChannel
             THEN Elig("deferReply", "", << >>, {}, << >>)
             ELSE Elig("reply", "wrongChannel", << >>, {}, << >>)
  /\ UNCHANGED <<now, scanCooldown, scanQueue, tasks, triggers, callLog, cookie, fwr, fwrHist, trace, call, db>>

\* The refusal was delivered, or not (line 438).
EligReplyDone ==
  /\ elig.pc = "reply"
  /\ elig' = [elig EXCEPT !.pc = "done"]
  /\ UNCHANGED <<now, scanCooldown, scanQueue, tasks, triggers, callLog, cookie, fwr, fwrHist, trace, call, db>>

\* A call to a Roblox API (the fetch of line 200 or 216) and, once it has
\* settled, the status of its response; status 0: the fetch was rejected.
ApiCall(api) == [api |-> api, settled |-> FALSE, status |-> 0]

ApiStatuses == Statuses \cup {0}

\* The last call of the log has settled with `status`.
ApiSettled(log, status) ==
  [log EXCEPT ![Len(log)] = [@ EXCEPT !.settled = TRUE, !.status = status]]

\* deferReply settled (line 446); usernameToUserId is called (line 450).
EligDeferDone(ok) ==
  /\ elig.pc = "deferReply"
  /\ elig' = [elig EXCEPT !.pc = IF ok THEN "userLookup" ELSE "threw"]
  /\ callLog' = IF ok THEN Append(callLog, ApiCall("users")) ELSE callLog
  /\ UNCHANGED <<now, scanCooldown, scanQueue, tasks, triggers, cookie, fwr, fwrHist, trace, call, db>>

\* Variant of usernameToUserId without the test of res.ok.
MutUsernameToUserIdAnyStatus(status, found) ==
  IF status = 0 THEN "throw" ELSE IF found THEN "id" ELSE "null"

\* usernameToUserId (lines 199-213), by the status of the response and
\* whether data.data[0] has an id: an exception ("throw"), null or the id.
usernameToUserId(status, found) ==
  IF status = 0 \/ ~Ok([status |-> status]) THEN "throw"
  ELSE IF found THEN "id"
  ELSE "null"

\* userGroups (lines 215-219): throws unless res.ok.
userGroups(status) == IF status = 0 \/ ~Ok([status |-> status]) THEN "throw" ELSE "data"

\* usernameToUserId settled (lines 449-471): failure and unknown user are
\* reported; else the registry is loaded and normalized and, unless it is
\* empty, userGroups is called.
EligLookupDone(status, found) ==
  LET out == usernameToUserId(status, found)
  IN /\ elig.pc = "userLookup"
     /\ elig' = CASE out = "throw" -> [elig EXCEPT !.pc = "editReply", !.said = "lookupFailed"]
                  [] out = "null" -> [elig EXCEPT !.pc = "editReply", !.said = "userNotFound"]
                  [] OTHER ->
                       IF normalizeGroups(db) = << >>
                       THEN [elig EXCEPT !.pc = "editReply", !.said = "noGroups"]
                       ELSE [elig EXCEPT !.pc = "userGroups",
                                         !.saved = normalizeGroups(db)]
     /\ callLog' = IF elig'.pc = "userGroups"
                   THEN Append(ApiSettled(callLog, status), ApiCall("groups"))
                   ELSE ApiSettled(callLog, status)
     /\ UNCHANGED <<now, scanCooldown, scanQueue, tasks, triggers, cookie, fwr, fwrHist, trace, call, db>>

\* The numeric group ids Roblox knows.
GroupNos == {1, 2}

\* userGroups settled (lines 469-502): with `data` the ids of ug.data.
EligGroupsDone(status, data) ==
  /\ elig.pc = "userGroups"
  /\ callLog' = ApiSettled(callLog, status)
  /\ elig' = IF userGroups(status) = "throw"
             THEN [elig EXCEPT !.pc = "editReply", !.said = "groupsFailed"]
             ELSE [elig EXCEPT !.pc = "editReply", !.said = "report",
                               !.ug = data,
                               !.report = ReportLines(elig.saved, UserGroupIds(data))]
  /\ UNCHANGED <<now, scanCooldown, scanQueue, tasks, triggers, cookie, fwr, fwrHist, trace, call, db>>

\* editReply settled; a rejection leaves the handler as an exception.
EligEditReplyDone(ok) ==
  /\ elig.pc = "editReply"
  /\ elig' = [elig EXCEPT !.pc = IF ok THEN "done" ELSE "threw"]
  /\ UNCHANGED <<now, scanCooldown, scanQueue, tasks, triggers, callLog, cookie, fwr, fwrHist, trace, call, db>>

\* Entries groups.json can hold: the initial record (line 66), records and
\* legacy strings with group links in both forms and in other case, with an
\* identifier written with a leading zero, with a link that is no group
\* link, without link, without name.
EligEntries ==
  {RecordEntry(Name(TRUE, "Nexus Arc", NoDigits),
               Link("roblox.com/communities/", DigitRun(0, 1), "/Nexus-Arc#!/about"),
               DEFAULT_WAIT_DAYS),
   RecordEntry(Name(TRUE, "Nexus Arc", NoDigits),
               Link("roblox.com/groups/", DigitRun(0, 2), ""), Undefined),
   RecordEntry(NoName, Link("Roblox.com/Groups/", DigitRun(0, 1), "/about"), 7),
   RecordEntry(Name(TRUE, "Two", NoDigits),
               Link("roblox.com/groups/", DigitRun(1, 2), ""), 7),
   RecordEntry(Name(TRUE, "Two", NoDigits), EmptyLink, 7),
   RecordEntry(Name(TRUE, "Pass", NoDigits),
               Link("roblox.com/game-pass/", DigitRun(0, 1), ""), 7),
   LegacyEntry(Link("roblox.com/groups/", DigitRun(0, 2), "/Two")),
   LegacyEntry(Link("roblox.com/groups/", NoDigits, "about"))}

EligInit ==
  /\ InitBot
  /\ cookie = FALSE
  /\ fwr = NoFrame
  /\ fwrHist = NoHist
  /\ trace = << >>
  /\ call = NoCall
  /\ elig = NoElig
  /\ db \in SeqsUpTo(EligEntries, MaxGroups)

EligNext ==
  \/ \E inChannel \in BOOLEAN : EligibleCmd(inChannel)
  \/ EligReplyDone
  \/ \E ok \in BOOLEAN : EligDeferDone(ok)
  \/ \E status \in ApiStatuses, found \in BOOLEAN : EligLookupDone(status, found)
  \/ \E status \in ApiStatuses, data \in SUBSET GroupNos : EligGroupsDone(status, data)
  \/ \E ok \in BOOLEAN : EligEditReplyDone(ok)

EligSpec == EligInit /\ [][EligNext]_vars

\* ====================================================================
\* The group registry and `add_group` (src/index.js 62-81, 396-434; the
\* handler of src/unnamed/part_000, lines 114-126)
\* ====================================================================

\* The record loadDB writes when groups.json is missing (lines 64-72).
InitialRecord ==
  RecordEntry(Name(TRUE, "Nexus Arc", NoDigits),
              Link("roblox.com/communities/", DigitRun(0, 1), "/Nexus-Arc#!/about"),
              DEFAULT_WAIT_DAYS)

\* The identifiers the entries' links carry, position by position.
GroupIdsOf(groups) == [j \in 1 .. Len(groups) |-> extractGroupId(groups[j].link)]

\* No identifier is carried by the links of two entries.
DistinctIds(groups) ==
  \A i, j \in 1 .. Len(groups) :
    (i # j /\ GroupIdsOf(groups)[i] # NoDigits) =>
      GroupIdsOf(groups)[i] # GroupIdsOf(groups)[j]

\* saveDB (lines 79-81) of normalized groups: the records groups.json
\* then holds.
saveDB(groups) ==
  [j \in 1 .. Len(groups) |->
     RecordEntry(groups[j].name, groups[j].link, groups[j].waitDays)]

\* findIndex of line 421, counted from 1; 0 when no entry matches.
FindIndex(groups, groupId) ==
  IF \E j \in 1 .. Len(groups) : GroupIdsOf(groups)[j] = groupId
  THEN CHOOSE j \in 1 .. Len(groups) :
         /\ GroupIdsOf(groups)[j] = groupId
         /\ \A i \in 1 .. (j - 1) : GroupIdsOf(groups)[i] # groupId
  ELSE 0

\* Lines 418-425: the loaded registry is normalized, and the entry replaces
\* the first one with its identifier, or is pushed.
Upsert(groups, entry) ==
  LET normalized == normalizeGroups(groups)
      idx == FindIndex(normalized, extractGroupId(entry.link))
  IN IF idx >= 1
     THEN [normalized EXCEPT ![idx] = entry]
     ELSE Append(normalized, entry)

\* String.prototype.trim (lines 405-406), on the names typed.
Trim(str) == IF str = " A " THEN "A" ELSE str

\* An add_group command at its reply; said: what it replies.
Command(by, name, link, waitDays, said, pc) ==
  [fn |-> "add_group", by |-> by, arg |-> [name |-> name, link |-> link, waitDays |-> waitDays],
   ret |-> said, pc |-> pc]

\* add_group of src/index.js (lines 396-432), up to its reply: the owner
\* check, the link check, the upsert and the save.  One command is
\* followed at a time; the registry is kept within MaxRegistry entries.
AddGroup(owner, name, link, waitdays) ==
  LET entry == [name |-> Name(TRUE, Trim(name), NoDigits),
                link |-> link,
                waitDays |-> IF waitdays = Null THEN DEFAULT_WAIT_DAYS ELSE waitdays]
      said == IF ~owner THEN "ownerOnly"
              ELSE IF extractGroupId(link) = NoDigits THEN "invalidLink"
              ELSE "saved"
  IN /\ call.pc \in {"none", "done"}
     /\ Len(db) < MaxRegistry
     /\ call' = Command("index.js", entry.name, link, entry.waitDays, said, "reply")
     /\ db' = IF said = "saved" THEN saveDB(Upsert(db, entry)) ELSE db
     /\ UNCHANGED <<now, scanCooldown, scanQueue, tasks, triggers, callLog, cookie, fwr, fwrHist, trace, elig>>

\* add_group of src/unnamed/part_000 (lines 114-126), started on the
\* registry as it is: the owner check, then the push and the save.
AddGroupPush(owner, name, link) ==
  /\ call.pc \in {"none", "done"}
  /\ Len(db) < MaxRegistry
  /\ call' = Command("part_000", Name(TRUE, name, NoDigits), link, Undefined,
                     IF owner THEN "saved" ELSE "ownerOnly", "reply")
  /\ db' = IF owner
           THEN Append(db, RecordEntry(Name(TRUE, name, NoDigits), link, Undefined))
           ELSE db
  /\ UNCHANGED <<now, scanCooldown, scanQueue, tasks, triggers, callLog, cookie, fwr, fwrHist, trace, elig>>

\* The reply of the command settled (lines 398, 411, 429); the handler
\* returns either way.
AddGroupReplyDone ==
  /\ call.pc = "reply"
  /\ call' = [call EXCEPT !.pc = "done"]
  /\ UNCHANGED <<now, scanCooldown, scanQueue, tasks, triggers, callLog, cookie, fwr, fwrHist, trace, db, elig>>

\* Names and links typed with the command: the links of groups 1 and 2,
\* of group 1 in the other form and in other case, and a link that is no
\* group link.
GroupNames == {" A ", "B"}

GroupLinks ==
  {Link("roblox.com/communities/", DigitRun(0, 1), "/Nexus-Arc#!/about"),
   Link("Roblox.com/Groups/", DigitRun(0, 1), ""),
   Link("roblox.com/groups/", DigitRun(0, 2), "/Two"),
   Link("roblox.com/game-pass/", DigitRun(0, 1), "")}

WaitDaysGiven == {Null, 7}

\* groups.json before the first command: as loadDB creates it, or as left
\* by an earlier format, no identifier being held twice.
RegistryFiles ==
  {<<InitialRecord>>,
   <<LegacyEntry(Link("roblox.com/groups/", DigitRun(0, 2), "/Two"))>>,
   <<LegacyEntry(Link("roblox.com/groups/", DigitRun(0, 2), "/Two")), InitialRecord>>,
   <<RecordEntry(Name(TRUE, "Two", NoDigits), EmptyLink, 7), InitialRecord>>}

RegistryInit ==
  /\ InitBot
  /\ cookie = FALSE
  /\ fwr = NoFrame
  /\ fwrHist = NoHist
  /\ trace = << >>
  /\ call = NoCall
  /\ elig = NoElig
  /\ db \in RegistryFiles

RegistryNext ==
  \/ \E owner \in BOOLEAN, name \in GroupNames, link \in GroupLinks,
        waitdays \in WaitDaysGiven : AddGroup(owner, name, link, waitdays)
  \/ \E owner \in BOOLEAN, name \in GroupNames, link \in GroupLinks :
        AddGroupPush(owner, name, link)
  \/ AddGroupReplyDone

RegistrySpec == RegistryInit /\ [][RegistryNext]_vars

\* --------------------------------------------------------------------
\* normalizeGroups as a function (src/index.js 83-103)
\* --------------------------------------------------------------------

\* Entries given to normalizeGroups: those of EligEntries, a record whose
\* waitDays is null, one whose waitDays is no number (Number(...) is NaN),
\* and the empty string.
NormalizeEntries ==
  EligEntries \cup
    {RecordEntry(Name(TRUE, "Two", NoDigits),
                 Link("roblox.com/groups/", DigitRun(0, 2), ""), Null),
     RecordEntry(Name(TRUE, "Two", NoDigits),
                 Link("roblox.com/groups/", DigitRun(0, 2), ""), NaN),
     LegacyEntry(EmptyLink)}

NormalizeReturn ==
  /\ call.pc = "called"
  /\ call.fn = "normalizeGroups"
  /\ call' = Returns(normalizeGroups(call.arg))
  /\ UNCHANGED <<now, scanCooldown, scanQueue, tasks, triggers, callLog, cookie, fwr, fwrHist, trace, db, elig>>

NormalizeInit ==
  /\ InitBot
  /\ cookie = FALSE
  /\ fwr = NoFrame
  /\ fwrHist = NoHist
  /\ trace = << >>
  /\ db = << >>
  /\ elig = NoElig
  /\ \E groups \in SeqsUpTo(NormalizeEntries, MaxGroups) :
       call = Called("normalizeGroups", groups)

NormalizeNext == NormalizeReturn

NormalizeSpec == NormalizeInit /\ [][NormalizeNext]_vars

\* ====================================================================
\* `eligible` next to the scan gate and queue: messageCreate admits and
\* enqueues scans, whose tasks are followed from start to settling only,
\* while one membership check runs (src/index.js 285-299, 436-503)
\* ====================================================================
FrameInit ==
  /\ InitBot
  /\ cookie = FALSE
  /\ fwr = NoFrame
  /\ fwrHist = NoHist
  /\ trace = << >>
  /\ call = NoCall
  /\ elig = NoElig
  /\ db = <<InitialRecord>>

\* The responses followed here: a rejected fetch, a success and a failure.
FrameStatuses == {0, 200, 500}

FrameNext ==
  \/ \E u \in Users, bot \in BOOLEAN, inChannel \in BOOLEAN,
        content \in Contents, hasRef \in BOOLEAN :
       MessageCreate(u, bot, inChannel, content, hasRef)
  \/ \E i \in 1 .. MaxTriggers : RejectReplyDone(i)
  \/ \E t \in Times : Tick(t)
  \/ \E n \in TaskIds : QStart(n)
  \/ \E n \in TaskIds, outcome \in {"fulfilled", "rejected"} : QSettle(n, outcome)
  \/ \E inChannel \in BOOLEAN : EligibleCmd(inChannel)
  \/ EligReplyDone
  \/ \E ok \in BOOLEAN : EligDeferDone(ok)
  \/ \E status \in FrameStatuses, found \in BOOLEAN : EligLookupDone(status, found)
  \/ \E status \in FrameStatuses, data \in SUBSET {1} : EligGroupsDone(status, data)
  \/ \E ok \in BOOLEAN : EligEditReplyDone(ok)

FrameSpec == FrameInit /\ [][FrameNext]_vars

\* ====================================================================
\* Properties
\* ====================================================================
TaskNos == 1 .. Len(tasks)

TriggerNos == 1 .. Len(triggers)

\* The task has been called and its promise has not settled.
Executing(n) == tasks[n].pc \notin {"queued", "done", "skipped"}

\* C1: at no time are two scan tasks executing, and the marketplace calls
\* (product-info, details, retries) of a scan enqueued earlier all come
\* before any call of a scan enqueued later.
C1_ScansSerialized ==
  /\ Cardinality({n \in TaskNos : Executing(n)}) <= 1
  /\ \A i, j \in 1 .. Len(callLog) : i < j => callLog[i] < callLog[j]

\* Two scans of different requesters, the second enqueued while the first
\* was pending, both made calls; the second is at a retry of its details call.
C1_Witness ==
  /\ callLog = <<1, 2>>
  /\ tasks[1].author # tasks[2].author
  /\ tasks[2].behind = 1
  /\ tasks[2].pc = "details"
  /\ tasks[2].fw.attempt > 0

\* C2: the task enqueued n-th has been called only if the task enqueued
\* (n-1)-th has settled, fulfilled or rejected.
C2_FifoStart ==
  \A n \in TaskNos :
    (n > 1 /\ tasks[n].pc # "queued") => tasks[n - 1].c # "pending"

\* A task enqueued behind two unsettled tasks runs, after its predecessor
\* failed.
C2_Witness ==
  \E n \in TaskNos :
    /\ n > 1
    /\ tasks[n].behind >= 2
    /\ tasks[n].pc = "running"
    /\ tasks[n - 1].t = "rejected"

\* C3: a rejecting task does not poison the queue: the promise scanQueue
\* holds never rejects, no later task is passed over, and a queued task whose
\* predecessor has settled can start.
C3_FailureIsolated ==
  \A n \in TaskNos :
    /\ tasks[n].c # "rejected"
    /\ tasks[n].pc # "skipped"
    /\ (tasks[n].pc = "queued" /\ PromState(tasks[n].prev) # "pending")
         => ENABLED QStart(n)

\* Task 1 rejected; task 2, enqueued before that, ran to its end; task 3,
\* enqueued after it, is running.
C3_Witness ==
  /\ Len(tasks) >= 3
  /\ tasks[1].t = "rejected"
  /\ tasks[2].behind = 1
  /\ tasks[2].pc = "done"
  /\ tasks[3].behind = 0
  /\ tasks[3].pc = "running"

\* C4: when a requester's trigger was admitted, a later trigger of the same
\* requester less than COOLDOWN_MS after it is rejected: no task is enqueued
\* for it and no marketplace call is made for it.
C4_SecondRejected ==
  \A i, j \in TriggerNos :
    ( /\ i < j
      /\ triggers[i].author = triggers[j].author
      /\ triggers[i].admitted
      /\ triggers[j].at - triggers[i].at < COOLDOWN_MS )
    => /\ ~triggers[j].admitted
       /\ \A n \in TaskNos : tasks[n].msg # j
       /\ \A k \in 1 .. Len(callLog) : tasks[callLog[k]].msg # j

\* The second trigger came COOLDOWN_MS - 1 after the admitted first, whose
\* scan has made calls.
C4_Witness ==
  /\ Len(triggers) = 2
  /\ triggers[1].author = triggers[2].author
  /\ triggers[1].admitted
  /\ triggers[2].at - triggers[1].at = COOLDOWN_MS - 1
  /\ ~triggers[2].admitted
  /\ triggers[2].pc = "done"
  /\ callLog = <<1>>

\* C5, as claimed: a trigger of a requester with a recorded admission is
\* admitted only if more than COOLDOWN_MS has elapsed since it.
C5_StrictlyExceeds ==
  \A j \in TriggerNos :
    (triggers[j].had /\ triggers[j].at - triggers[j].last <= COOLDOWN_MS)
      => ~triggers[j].admitted

\* C5, amended: a trigger of a requester with a recorded admission is admitted
\* if and only if at least COOLDOWN_MS has elapsed since it.
C5_AdmitsFromWindowEnd ==
  \A j \in TriggerNos :
    triggers[j].had =>
      (triggers[j].admitted <=> triggers[j].at - triggers[j].last >= COOLDOWN_MS)

\* A trigger exactly COOLDOWN_MS after the requester's last admission is admitted.
C5_Witness ==
  \E j \in TriggerNos :
    /\ triggers[j].had
    /\ triggers[j].at - triggers[j].last = COOLDOWN_MS
    /\ triggers[j].admitted

\* C6: a step that handles a trigger sets the requester's timestamp to the
\* current time if it admits and leaves it if it rejects, and changes no other
\* requester's timestamp; no other step changes the cooldown map.
C6_CooldownFrame ==
  [][ /\ Len(triggers') = Len(triggers) => scanCooldown' = scanCooldown
      /\ Len(triggers') = Len(triggers) + 1 =>
           LET j == Len(triggers')
               u == triggers'[j].author
           IN /\ scanCooldown'[u] = IF triggers'[j].admitted
                                    THEN now
                                    ELSE scanCooldown[u]
              /\ \A v \in Users \ {u} : scanCooldown'[v] = scanCooldown[v]
    ]_vars

\* A requester's second trigger was rejected after the first was admitted,
\* and the map still holds the first admission's time.
C6_Witness ==
  /\ Len(triggers) = 2
  /\ triggers[1].author = triggers[2].author
  /\ triggers[1].admitted
  /\ ~triggers[2].admitted
  /\ triggers[2].at > triggers[1].at
  /\ scanCooldown[triggers[1].author] = triggers[1].at
  /\ \A v \in Users \ {triggers[1].author} : scanCooldown[v] = NoEntry

\* The time of the requester's latest admission among the triggers before j
\* (0 if none).
LastAdmissionBefore(j) ==
  LET earlier == {i \in 1 .. j - 1 : /\ triggers[i].author = triggers[j].author
                                     /\ triggers[i].admitted}
  IN IF earlier = {} THEN 0
     ELSE triggers[CHOOSE i \in earlier : \A k \in earlier : k <= i].at

\* C7: admission is atomic.  Every handler read the timestamp of the
\* requester's latest admission; two admitted triggers of one requester are
\* at least COOLDOWN_MS apart; every admitted trigger has exactly one task,
\* and the chain from scanQueue links every task to its predecessor.
C7_AdmissionAtomic ==
  /\ \A j \in TriggerNos : triggers[j].last = LastAdmissionBefore(j)
  /\ \A i, j \in TriggerNos :
       ( /\ i < j
         /\ triggers[i].author = triggers[j].author
         /\ triggers[i].admitted
         /\ triggers[j].admitted )
       => triggers[j].at - triggers[i].at >= COOLDOWN_MS
  /\ \A j \in TriggerNos :
       Cardinality({n \in TaskNos : tasks[n].msg = j})
         = IF triggers[j].admitted THEN 1 ELSE 0
  /\ scanQueue = Len(tasks)
  /\ \A n \in TaskNos : tasks[n].prev = n - 1

\* Two triggers of one requester at the same instant: the first admitted and
\* its task on the chain, the second rejected with its handler still
\* suspended at the reply.
C7_Witness ==
  /\ Len(triggers) = 2
  /\ triggers[1].author = triggers[2].author
  /\ triggers[1].at = triggers[2].at
  /\ triggers[1].admitted
  /\ ~triggers[2].admitted
  /\ triggers[2].pc = "rejectReply"
  /\ Len(tasks) = 1
  /\ tasks[1].msg = 1

\* C8: a call that never returns does not block: when a task waits on such a
\* call and another task is queued behind it, the waiting task can still take
\* a step or the queued task can start.
C8_NeverBlocked ==
  \A n, m \in TaskNos :
    (n < m /\ tasks[n].pc = "hung" /\ tasks[m].pc = "queued")
      => (ENABLED TaskStep(n)) \/ (ENABLED StartTask(m))

AllThrottled(rs) == \A i \in 1 .. Len(rs) : rs[i].status = THROTTLED

\* C9: a response whose status is not 429 is returned at once: it is the
\* result, no wait was begun after it and no attempt follows it; every
\* response that was followed by another attempt is a 429.
C9_NonThrottledReturned ==
  LET rs == fwrHist.resps
  IN /\ \A i \in 1 .. Len(rs) - 1 : rs[i].status = THROTTLED
     /\ (rs # << >> /\ Last(rs).status # THROTTLED)
          => /\ fwr.pc = "returned"
             /\ fwr.ret = Last(rs)
             /\ Len(fwrHist.waits) = Len(rs) - 1
             /\ fwrHist.calls = Len(rs)

\* An error status received on the second attempt was returned.
C9_Witness ==
  /\ Len(fwrHist.resps) = 2
  /\ fwrHist.resps[2].status = 500
  /\ fwr.pc = "returned"
  /\ fwr.ret.status = 500

\* C10: at most maxRetries + 1 attempts are made and the function is never
\* stuck; when every attempt was throttled it returns after exactly
\* maxRetries + 1 attempts, with the last response, having waited maxRetries
\* times (not after the last attempt); it raises only if a fetch raised.
C10_BoundedAttempts ==
  LET rs == fwrHist.resps
  IN /\ fwrHist.calls <= fwr.maxRetries + 1
     /\ fwr.pc \in {"fetch", "sleep", "returned", "threw"}
     /\ fwr.pc \in {"fetch", "sleep"} => ENABLED RetryNext
     /\ fwr.pc = "threw" => fwrHist.threw
     /\ (fwr.pc = "returned" /\ AllThrottled(rs))
          => /\ fwrHist.calls = fwr.maxRetries + 1
             /\ Len(rs) = fwr.maxRetries + 1
             /\ fwr.ret = Last(rs)
             /\ Len(fwrHist.waits) = fwr.maxRetries
     /\ (AllThrottled(rs) /\ Len(rs) = fwr.maxRetries + 1) => fwr.pc = "returned"

\* With maxRetries = 3, four throttled attempts, then the return.
C10_Witness ==
  /\ fwr.maxRetries = 3
  /\ fwr.pc = "returned"
  /\ Len(fwrHist.resps) = 4
  /\ AllThrottled(fwrHist.resps)
  /\ fwr.ret.status = THROTTLED

\* The response's retry-after header carries a hint (a non-empty value).
HintGiven(res) == res.retryAfter \notin {"null", ""}

\* C11: the i-th wait (before retry i, after attempt i - 1) lasts
\* max(1000, hint * 1000) ms when the throttled response carries a hint and
\* 1500 * i ms when it carries none; with a hint it is never below 1000 ms.
C11_WaitFromHint ==
  \A i \in 1 .. Len(fwrHist.waits) :
    LET res == fwrHist.resps[i]
        slept == TimerDelay(fwrHist.waits[i])
    IN IF HintGiven(res)
       THEN /\ slept >= MIN_WAIT_MS
            /\ CeilMs(res.retryAfter) # NaN
                 => slept = Max(MIN_WAIT_MS, CeilMs(res.retryAfter))
       ELSE slept = FALLBACK_STEP_MS * i

\* C12: for every price P >= 0 the payout robuxAfterFee computes is the
\* integer floor of 7P/10 (0 for P = 0).
C12_PayoutIsFloor ==
  (call.pc = "returned" /\ call.fn = "robuxAfterFee")
    => call.ret = (7 * call.arg) \div 10

\* --------------------------------------------------------------------
\* One scan (ScanSpec): the scan is tasks[1], its history is trace.
\* --------------------------------------------------------------------
EventNos(ev) == {j \in 1 .. Len(trace) : trace[j].ev = ev}

\* The event of call `ev` for listing k, if it has settled.
Settles(ev, k) == {j \in EventNos(ev) : trace[j].k = k}

EventOf(ev, k) == trace[CHOOSE j \in Settles(ev, k) : TRUE]

\* The product info has no price property, or the first one it has is zero.
MissingOrZero(info) ==
  \/ info = NoInfo
  \/ info.PriceInRobux = 0
  \/ info.PriceInRobux = Undefined /\ info.priceInRobux = 0
  \/ info.PriceInRobux = Undefined /\ info.priceInRobux = Undefined /\ info.price = 0

\* C13: a listing whose product info came back with a missing or zero price
\* has the block 'price unreadable': no payout figure, no price, no error.
C13_UnreadableReported ==
  \A k \in 1 .. Len(tasks[1].blocks) :
    ( /\ Settles("info", k) # {}
      /\ EventOf("info", k).out = "ok"
      /\ MissingOrZero(EventOf("info", k).info) )
    => /\ tasks[1].blocks[k].kind = "unreadable"
       /\ Shows(tasks[1].blocks[k]) \cap {"receive", "price", "error"} = {}

\* The first of two listings has a zero price (before a positive one under
\* another name), the second is quoted; the report is being sent.
C13_Witness ==
  /\ tasks[1].pc = "replyChunk"
  /\ Len(tasks[1].blocks) = 2
  /\ EventOf("info", 1).info = InfoBody(0, 100, Undefined)
  /\ tasks[1].blocks[1].kind = "unreadable"
  /\ tasks[1].blocks[2].kind = "quote"

\* fetchGamePassDetails did not give details: the credential is absent, the
\* fetch raised, or the status returned is not 2xx (a 429 after the retries).
DetailsFailed(e) ==
  \/ e.out \in {"nocookie", "throw"}
  \/ e.out = "res" /\ ~(e.status >= 200 /\ e.status <= 299)

\* C14: for a listing with a positive price whose details lookup failed, the
\* block carries the price, the payout and the caveat: it is no error block
\* and no regional-pricing verdict.
C14_DetailsFailureDegrades ==
  \A k \in 1 .. Len(tasks[1].blocks) :
    ( /\ Settles("info", k) # {}
      /\ EventOf("info", k).out = "ok"
      /\ ~MissingOrZero(EventOf("info", k).info)
      /\ Settles("details", k) # {}
      /\ DetailsFailed(EventOf("details", k)) )
    => /\ tasks[1].blocks[k].kind = "caveat"
       /\ tasks[1].blocks[k].price = 100
       /\ Shows(tasks[1].blocks[k]) = {"price", "receive", "caveat"}

\* With the credential set, the first listing's details were throttled on
\* all four attempts and the second's gave a 500; both blocks carry the
\* caveat.
C14_Witness ==
  /\ cookie
  /\ tasks[1].pc = "replyChunk"
  /\ Len(tasks[1].blocks) = 2
  /\ Settles("details", 1) # {}
  /\ Settles("details", 2) # {}
  /\ EventOf("details", 1).status = THROTTLED
  /\ EventOf("details", 2).status = 500
  /\ tasks[1].blocks[1].kind = "caveat"
  /\ tasks[1].blocks[2].kind = "caveat"

\* The scan found N > 0 references.
FoundRefs == IF trace # << >> /\ trace[1].out = "found" THEN trace[1].k ELSE 0

\* C15: the blocks are the results of the references in first-seen order,
\* block j numbered j; the loop adds exactly one block per reference, a
\* failed product-info lookup gives the error block of that reference alone,
\* and the scan is abandoned only when a reply fails: after the loop there
\* are N blocks, and a scan that ended had all N references looked up.
C15_OneBlockPerReference ==
  LET tk == tasks[1]
  IN /\ \A j \in 1 .. Len(tk.blocks) :
          /\ tk.blocks[j].id = tk.ids[j]
          /\ tk.blocks[j].num = j
          /\ tk.blocks[j].kind = "failed"
               <=> EventOf("info", j).out \in {"status", "throw"}
     /\ \A j, l \in 1 .. Len(tk.ids) : tk.ids[j] = tk.ids[l] => j = l
     /\ tk.pc \in {"info", "details", "retrySleep"} => Len(tk.blocks) = tk.k - 1
     /\ tk.pc = "sleep350" => Len(tk.blocks) = tk.k
     /\ tk.pc = "replyChunk" => Len(tk.blocks) = Len(tk.ids) /\ Len(tk.ids) = FoundRefs
     /\ tk.pc = "replyErr" =>
          \E j \in EventNos("replyNone") \cup EventNos("replyChunk") :
            trace[j].out = "fail"
     /\ (tk.pc = "done" /\ FoundRefs > 0) =>
          \A k \in 1 .. FoundRefs : Settles("info", k) # {}

\* Of two references the first's product info failed: two blocks, the first
\* the error block, the second a quote.
C15_Witness ==
  /\ tasks[1].pc = "replyChunk"
  /\ Len(tasks[1].ids) = 2
  /\ Len(tasks[1].blocks) = 2
  /\ tasks[1].blocks[1].kind = "failed"
  /\ tasks[1].blocks[2].kind = "quote"

\* C16: the lookups of a scan come one after the other, listing by listing,
\* and the product-info fetch of every listing after the first comes right
\* after a sleep(350) that followed the lookups of the listing before it.
C16_DelayBetweenListings ==
  /\ \A j, l \in EventNos("info") \cup EventNos("details") :
       j < l => trace[j].k <= trace[l].k
  /\ \A j \in EventNos("info") :
       trace[j].k > 1 => /\ trace[j - 1].ev = "sleep350"
                         /\ trace[j - 1].k = trace[j].k - 1

RECURSIVE Flatten(_)
Flatten(ss) == IF ss = << >> THEN << >> ELSE Head(ss) \o Flatten(Tail(ss))

\* C18: every chunk sent is at most CHUNK_BUDGET characters long, and the
\* chunks are made of whole blocks: together they are the blocks.
C18_ChunksWithinBudget ==
  tasks[1].pc = "replyChunk" =>
    LET chunks == Chunks(tasks[1].blocks)
    IN /\ \A c \in 1 .. Len(chunks) : TrimmedLen(chunks[c]) <= CHUNK_BUDGET
       /\ Flatten(chunks) = tasks[1].blocks

\* The replied message was fetched and has no game-pass link.
NoLinksFound ==
  trace # << >> /\ trace[1].out = "found" /\ trace[1].k = 0

IsGamePassLink(piece) ==
  /\ piece.before \in {"roblox.com/game-pass/", "ROBLOX.COM/Game-Pass/"}
  /\ piece.digits # NoDigits

\* The positions of the links to `id` in the text.
LinksTo(pieces, id) ==
  {p \in 1 .. Len(pieces) : IsGamePassLink(pieces[p]) /\ pieces[p].digits = id}

FirstLinkTo(pieces, id) ==
  CHOOSE p \in LinksTo(pieces, id) : \A q \in LinksTo(pieces, id) : p <= q

\* C17: the result holds the identifier of every game-pass link of the text,
\* matched in any case, and nothing else; each once; ordered by the first
\* occurrence of each; it is empty for an empty text, a text without links
\* and a text that is not there.
C17_ExtractUniqueInOrder ==
  (call.pc = "returned" /\ call.fn = "extractGamePassIds") =>
    LET pieces == call.arg.pieces
        ids == call.ret
    IN /\ \A p \in 1 .. Len(pieces) :
            IsGamePassLink(pieces[p])
              => \E a \in 1 .. Len(ids) : ids[a] = pieces[p].digits
       /\ \A a \in 1 .. Len(ids) : LinksTo(pieces, ids[a]) # {}
       /\ \A a, b \in 1 .. Len(ids) : ids[a] = ids[b] => a = b
       /\ \A a, b \in 1 .. Len(ids) :
            a < b => FirstLinkTo(pieces, ids[a]) < FirstLinkTo(pieces, ids[b])
       /\ (\A p \in 1 .. Len(pieces) : ~IsGamePassLink(pieces[p])) => ids = << >>

\* Pass 2, pass 1, then pass 1 again in other case: the result is 2, 1.
C17_Witness ==
  /\ call.pc = "returned"
  /\ call.arg = Text(<<Piece("roblox.com/game-pass/", DigitRun(0, 2)),
                       Piece("roblox.com/game-pass/", DigitRun(0, 1)),
                       Piece("ROBLOX.COM/Game-Pass/", DigitRun(0, 1))>>)
  /\ call.ret = <<DigitRun(0, 2), DigitRun(0, 1)>>

\* --------------------------------------------------------------------
\* The eligibility report (EligSpec)
\* --------------------------------------------------------------------

\* The registered groups: the entries of groups.json that have a link.
Registered == SelectSeq(db, HasLink)

\* The link is a group link, in either form and in whatever case, whose
\* identifier is the decimal form of a group the user belongs to.
LinksToGroupOf(link, memberOf) ==
  /\ link.front \in {"roblox.com/communities/", "roblox.com/groups/",
                     "Roblox.com/Groups/"}
  /\ link.digits # NoDigits
  /\ link.digits.zeros = 0
  /\ link.digits.val \in memberOf

\* C20: the report has one line per registered group, in registry order,
\* and a line says 'Member' exactly when the identifier in the group's link
\* is one of the user's groups, whatever the name and the rest of the link.
C20_ReportMatchesRegistry ==
  elig.said = "report" =>
    /\ Len(elig.report) = Len(Registered)
    /\ \A j \in 1 .. Len(elig.report) :
         /\ elig.report[j].link = Registered[j].link
         /\ elig.report[j].mark \in {"Member", "Not in Group"}
         /\ elig.report[j].mark = "Member"
              <=> LinksToGroupOf(Registered[j].link, elig.ug)

\* Two registered groups of one name, the user in the first only (a
\* communities link).
C20_Witness ==
  /\ elig.pc = "done"
  /\ elig.said = "report"
  /\ Len(elig.report) = 2
  /\ elig.report[1].name = elig.report[2].name
  /\ elig.report[1].link.front = "roblox.com/communities/"
  /\ elig.report[1].mark = "Member"
  /\ elig.report[2].mark = "Not in Group"

\* --------------------------------------------------------------------
\* Registry properties
\* --------------------------------------------------------------------

\* C21: after any sequence of add_group commands the registry holds no two
\* entries whose links carry the same group identifier.
C21_NoDuplicateIds == DistinctIds(db)

\* normalizeGroups has returned.
Normalized == call.fn = "normalizeGroups" /\ call.pc = "returned"

\* A legacy entry: a string that is not empty.
IsLegacyLink(g) == g.form = "string" /\ g.link # EmptyLink

\* A full record: a name, a link and a waitDays that is a finite number.
IsFullRecord(g) ==
  /\ g.form = "record"
  /\ g.name.given
  /\ g.link # EmptyLink
  /\ g.waitDays \notin {Undefined, Null, NaN}

\* What the claim says the entry becomes.
ExpectedRecord(g) ==
  IF IsLegacyLink(g)
  THEN [name |-> IF extractGroupId(g.link) # NoDigits
                 THEN Name(TRUE, "Group ", extractGroupId(g.link))
                 ELSE Name(TRUE, "Group", NoDigits),
        link |-> g.link,
        waitDays |-> 14]
  ELSE [name |-> g.name, link |-> g.link, waitDays |-> g.waitDays]

\* The positions of `groups` holding legacy links or full records.
ClaimedNos(groups) ==
  {j \in 1 .. Len(groups) : IsLegacyLink(groups[j]) \/ IsFullRecord(groups[j])}

\* C22: every legacy link string becomes a record with waitDays 14, the
\* string as link and the name `Group <id>` from the link's identifier
\* (`Group` when it has none); every full record is returned as it is; and
\* these records come out in the order they went in.
C22_NormalizeUpgrades ==
  Normalized =>
    \E f \in [ClaimedNos(call.arg) -> 1 .. Len(call.ret)] :
      /\ \A i, j \in ClaimedNos(call.arg) : i < j => f[i] < f[j]
      /\ \A j \in ClaimedNos(call.arg) : call.ret[f[j]] = ExpectedRecord(call.arg[j])

\* A registry of a legacy link with an identifier and a full record with
\* another waitDays has been normalized; both are returned.
C22_Witness ==
  /\ Normalized
  /\ Len(call.arg) = 2
  /\ IsLegacyLink(call.arg[1])
  /\ extractGroupId(call.arg[1].link) # NoDigits
  /\ IsFullRecord(call.arg[2])
  /\ call.arg[2].waitDays = 7
  /\ Len(call.ret) = 2

\* C23: every record normalizeGroups returns has a link with an extractable
\* group identifier.
C23_AllLinksHaveIds ==
  Normalized =>
    \A j \in 1 .. Len(call.ret) : extractGroupId(call.ret[j].link) # NoDigits

\* --------------------------------------------------------------------
\* Membership check: frame and failures
\* --------------------------------------------------------------------

\* The call settled without a success status (or its fetch was rejected).
FailedCall(c) == c.settled /\ ~(c.status >= 200 /\ c.status <= 299)

\* What the check replies when the call fails.
FailureSaid(c) == IF c.api = "users" THEN "lookupFailed" ELSE "groupsFailed"

\* A failed call is the last call made; the check has then said the
\* failure and built no report.
FailureEndsCheck ==
  \A k \in 1 .. Len(callLog) :
    FailedCall(callLog[k]) =>
      /\ k = Len(callLog)
      /\ elig.said = FailureSaid(callLog[k])
      /\ elig.report = << >>
      /\ elig.pc \in {"editReply", "done", "threw"}

\* C24: a step of the membership check changes neither the scan queue
\* (no task is enqueued, none started or settled) nor the cooldown map;
\* and once a user-directory or group-membership call has returned a
\* non-success status, the check reports the failure, makes no further
\* call and builds no membership report.
C24_CheckIsFramed ==
  [][/\ elig' # elig => UNCHANGED <<scanQueue, scanCooldown, tasks>>
     /\ FailureEndsCheck']_vars

\* The group-membership call came back 500 after the user was found, the
\* failure was replied, and a scan was admitted and enqueued meanwhile.
C24_Witness ==
  /\ elig.pc = "done"
  /\ elig.said = "groupsFailed"
  /\ Len(callLog) = 2
  /\ callLog[1].status = 200
  /\ callLog[2].status = 500
  /\ Len(tasks) >= 1
  /\ scanQueue >= 1
  /\ \E u \in Users : scanCooldown[u] # NoEntry

\* --------------------------------------------------------------------
\* Progress of the scan queue
\* --------------------------------------------------------------------

\* C25: when every call and reply returns, every enqueued task is
\* eventually started and runs to its end, whatever was enqueued before it
\* and whether those tasks fulfilled or rejected; and it runs once: it is
\* never passed over, never back in the queue once started, and stays
\* ended.
C25_AdmittedTaskRuns ==
  /\ \A n \in 1 .. MaxQueue :
       (Len(tasks) >= n) ~> (Len(tasks) >= n /\ tasks[n].pc = "done")
  /\ [][\A n \in 1 .. Len(tasks) :
          /\ tasks'[n].pc # "skipped"
          /\ tasks[n].pc # "queued" => tasks'[n].pc # "queued"
          /\ tasks[n].pc = "done" => tasks'[n].pc = "done"]_vars

\* Three tasks were enqueued one behind the other; the first two rejected
\* and the third has run to its end.
C25_Witness ==
  /\ Len(tasks) >= 3
  /\ tasks[2].behind = 1
  /\ tasks[3].behind = 2
  /\ tasks[1].t = "rejected"
  /\ tasks[2].t = "rejected"
  /\ tasks[3].pc = "done"
  /\ tasks[3].t = "fulfilled"

\* --------------------------------------------------------------------
\* Chunking
\* --------------------------------------------------------------------

\* C26: the chunks of a scan, one after the other, are the blocks, each
\* once and in order, and the chunk being sent is never empty.
C26_ChunksLoseNothing ==
  tasks[1].pc = "replyChunk" =>
    LET chunks == Chunks(tasks[1].blocks)
    IN /\ Flatten(chunks) = tasks[1].blocks
       /\ chunks[tasks[1].sent + 1] # << >>

\* --------------------------------------------------------------------
\* The gate before any admission
\* --------------------------------------------------------------------

\* C27: a trigger of a requester for whom the cooldown map holds no entry
\* is admitted, whatever the clock reads.
C27_FirstTriggerAdmitted ==
  \A i \in TriggerNos : ~triggers[i].had => triggers[i].admitted
====
